---- MODULE Spec2Model ----
(***************************************************************************)
(* A model of gpui's macOS platform binding                                *)
(* (src/gpui/src/platform/mac/platform.rs): the clipboard codec of         *)
(* MacPlatform, and the callback registry, menu table and native dispatch  *)
(* entry points of MacForegroundPlatform.                                  *)
(***************************************************************************)
EXTENDS Integers, Sequences, FiniteSets, TLC

\* ------------------------------------------------------------------------
\* Bounds of the model
\* ------------------------------------------------------------------------

\* Longest byte string put in the plain-text slot.
MaxTextLen == 2

\* Number of values the modelled text hash takes. The program's hash is a
\* 64-bit digest of texts of any length, so distinct texts with one digest
\* exist; the model keeps that by having fewer digests than texts.
HashBuckets == 5

\* ------------------------------------------------------------------------
\* Option<T>: None is the empty sequence, Some(x) the one-element sequence.
\* ------------------------------------------------------------------------

None == <<>>

Some(x) == <<x>>

IsSome(o) == o # <<>>

Unwrap(o) == o[1]

\* ------------------------------------------------------------------------
\* Bytes and UTF-8
\* ------------------------------------------------------------------------

\* The bytes the model puts on the pasteboard: 'a', the two bytes of U+00E9
\* (0xC3 0xA9) and 0xFF, which no UTF-8 text contains.
TextBytes == {97, 195, 169, 255}

RECURSIVE SeqsUpTo(_, _)
SeqsUpTo(S, n) ==
    IF n = 0 THEN {<<>>}
    ELSE LET shorter == SeqsUpTo(S, n - 1)
         IN shorter \cup {Append(s, x) : s \in shorter, x \in S}

\* slice index that is 0 past the end (safe_get of the lossy decoder).
SafeGet(s, i) == IF i <= Len(s) THEN s[i] ELSE 0

IsCont(b) == b >= 128 /\ b <= 191

\* core::str::utf8_char_width: the length a lead byte announces, 0 if the
\* byte cannot start a sequence.
utf8_char_width(b) ==
    IF b < 128 THEN 1
    ELSE IF b >= 194 /\ b <= 223 THEN 2
    ELSE IF b >= 224 /\ b <= 239 THEN 3
    ELSE IF b >= 240 /\ b <= 244 THEN 4
    ELSE 0

\* The second byte a three- or four-byte lead admits.
SecondOk(b, c) ==
    IF b = 224 THEN c >= 160 /\ c <= 191
    ELSE IF b = 237 THEN c >= 128 /\ c <= 159
    ELSE IF b = 240 THEN c >= 144 /\ c <= 191
    ELSE IF b = 244 THEN c >= 128 /\ c <= 143
    ELSE IsCont(c)

\* One step of the UTF-8 decoder at index i: the bytes consumed and whether
\* they form a character (otherwise they are the maximal invalid prefix).
Utf8Step(s, i) ==
    LET b == s[i]
        w == utf8_char_width(b)
        c1 == SafeGet(s, i + 1)
        c2 == SafeGet(s, i + 2)
        c3 == SafeGet(s, i + 3)
    IN  IF w = 1 THEN [n |-> 1, ok |-> TRUE]
        ELSE IF w = 2 THEN
            IF IsCont(c1) THEN [n |-> 2, ok |-> TRUE] ELSE [n |-> 1, ok |-> FALSE]
        ELSE IF w = 3 THEN
            IF ~SecondOk(b, c1) THEN [n |-> 1, ok |-> FALSE]
            ELSE IF ~IsCont(c2) THEN [n |-> 2, ok |-> FALSE]
            ELSE [n |-> 3, ok |-> TRUE]
        ELSE IF w = 4 THEN
            IF ~SecondOk(b, c1) THEN [n |-> 1, ok |-> FALSE]
            ELSE IF ~IsCont(c2) THEN [n |-> 2, ok |-> FALSE]
            ELSE IF ~IsCont(c3) THEN [n |-> 3, ok |-> FALSE]
            ELSE [n |-> 4, ok |-> TRUE]
        ELSE [n |-> 1, ok |-> FALSE]

\* U+FFFD REPLACEMENT CHARACTER in UTF-8.
Replacement == <<239, 191, 189>>

RECURSIVE LossyFrom(_, _)
LossyFrom(s, i) ==
    IF i > Len(s) THEN <<>>
    ELSE LET st == Utf8Step(s, i)
         IN (IF st.ok THEN SubSeq(s, i, i + st.n - 1) ELSE Replacement)
                \o LossyFrom(s, i + st.n)

\* String::from_utf8_lossy(bytes).to_string(): every maximal invalid part
\* becomes U+FFFD, the rest is kept.
from_utf8_lossy(s) == LossyFrom(s, 1)

RECURSIVE ValidFrom(_, _)
ValidFrom(s, i) ==
    IF i > Len(s) THEN TRUE
    ELSE LET st == Utf8Step(s, i)
         IN st.ok /\ ValidFrom(s, i + st.n)

\* String::from_utf8(bytes).ok(): the bytes as a String, or None when they
\* are not UTF-8.
from_utf8_ok(s) == IF ValidFrom(s, 1) THEN Some(s) ELSE None

\* Every byte string the plain-text slot may hold in the model.
ByteStrings == SeqsUpTo(TextBytes, MaxTextLen)

\* The Rust Strings among them: a ClipboardItem's text is always UTF-8.
Texts == {s \in ByteStrings : ValidFrom(s, 1)}

\* Metadata strings of this application ("m", "n").
Metas == {<<109>>, <<110>>}

\* ClipboardItem { text, metadata }.
ClipboardItem(t, m) == [text |-> t, metadata |-> m]

Items == {ClipboardItem(t, m) : t \in Texts, m \in {None} \cup {Some(x) : x \in Metas}}

\* ------------------------------------------------------------------------
\* The text hash and its eight-byte big-endian form
\* ------------------------------------------------------------------------

RECURSIVE HashFrom(_, _, _)
HashFrom(s, i, h) ==
    IF i > Len(s) THEN h
    ELSE HashFrom(s, i + 1, (h * 31 + s[i]) % HashBuckets)

\* ClipboardItem::text_hash: a fixed deterministic digest of the text's
\* bytes.
text_hash(t) == HashFrom(t, 1, Len(t) % HashBuckets)

RECURSIVE BeBytes(_, _)
BeBytes(h, n) ==
    IF n = 0 THEN <<>> ELSE Append(BeBytes(h \div 256, n - 1), h % 256)

\* u64::to_be_bytes.
to_be_bytes(h) == BeBytes(h, 8)

RECURSIVE BeValue(_, _)
BeValue(bytes, n) ==
    IF n = 0 THEN 0 ELSE BeValue(bytes, n - 1) * 256 + bytes[n]

\* bytes.try_into().ok().map(u64::from_be_bytes): None unless the slice is
\* exactly eight bytes wide.
hash_from_bytes(bytes) ==
    IF Len(bytes) = 8 THEN Some(BeValue(bytes, 8)) ELSE None

\* ------------------------------------------------------------------------
\* The pasteboard: three typed slots, each absent or a byte string
\* ------------------------------------------------------------------------

SlotKinds == {"text", "hash", "meta"}

EmptyPasteboard == [text |-> None, hash |-> None, meta |-> None]

\* NSPasteboard clearContents: every slot becomes absent.
clearContents(pb) == [text |-> None, hash |-> None, meta |-> None]

\* NSPasteboard setData:forType:.
setData_forType(pb, data, kind) == [pb EXCEPT ![kind] = Some(data)]

\* What slice::from_raw_parts(NULL, 0) comes to (undefined behaviour):
\* the slice with a null data pointer reads as the None of Option<&[u8]>,
\* or the precondition check of a debug build aborts the process.
EmptySliceOutcomes == {"none", "abort"}

\* The result of a read: a value, or the process aborted.
Value(v) == [aborted |-> FALSE, value |-> v]

Aborted == [aborted |-> TRUE, value |-> None]

\* MacPlatform::read_from_pasteboard: dataForType:, None when it is nil,
\* else the slice of the data's bytes and length (lines 323-326); the bytes
\* pointer of empty data is NULL, and `ub` is what the build makes of it.
read_from_pasteboard(pb, kind, ub) ==
    IF pb[kind] = None THEN Value(None)
    ELSE IF Unwrap(pb[kind]) = <<>>
         THEN IF ub = "abort" THEN Aborted ELSE Value(None)
    ELSE Value(pb[kind])

\* MacPlatform::write_to_clipboard: clear, then the text slot, then (with
\* metadata) the hash slot and the metadata slot.
write_to_clipboard(pb, item) ==
    LET p1 == clearContents(pb)
        p2 == setData_forType(p1, item.text, "text")
    IN  IF IsSome(item.metadata)
        THEN LET hash_bytes == to_be_bytes(text_hash(item.text))
                 p3 == setData_forType(p2, hash_bytes, "hash")
             IN  setData_forType(p3, Unwrap(item.metadata), "meta")
        ELSE p2

\* The body of read_from_clipboard once the three slots are read: the text
\* decoded lossily, and the metadata only when both private slots decode
\* and the stored hash is the hash of that text.
item_from_slots(text_bytes, hash_slot, meta_slot) ==
    LET text == from_utf8_lossy(text_bytes)
        hash_bytes == IF IsSome(hash_slot) THEN hash_from_bytes(Unwrap(hash_slot)) ELSE None
        metadata_bytes == IF IsSome(meta_slot) THEN from_utf8_ok(Unwrap(meta_slot)) ELSE None
    IN  IF IsSome(hash_bytes) /\ IsSome(metadata_bytes)
        THEN IF Unwrap(hash_bytes) = text_hash(text)
             THEN ClipboardItem(text, Some(Unwrap(metadata_bytes)))
             ELSE ClipboardItem(text, None)
        ELSE ClipboardItem(text, None)

\* MacPlatform::read_from_clipboard: the three slots are read in turn;
\* None without a plain-text slot.
read_from_clipboard(pb, ub) ==
    LET text_bytes == read_from_pasteboard(pb, "text", ub)
        hash_slot == read_from_pasteboard(pb, "hash", ub)
        meta_slot == read_from_pasteboard(pb, "meta", ub)
    IN  IF text_bytes.aborted THEN Aborted
        ELSE IF text_bytes.value = None THEN Value(None)
        ELSE IF hash_slot.aborted \/ meta_slot.aborted THEN Aborted
        ELSE Value(Some(item_from_slots(Unwrap(text_bytes.value),
                                        hash_slot.value, meta_slot.value)))

\* What a foreign process may put in a slot: any byte string in the text
\* slot; an eight-byte hash or a slot of another width (none, one byte,
\* nine bytes); metadata bytes that are UTF-8 or not, or no bytes.
ExtData(kind) ==
    IF kind = "text" THEN ByteStrings
    ELSE IF kind = "hash"
         THEN {to_be_bytes(h) : h \in 0 .. HashBuckets - 1}
                  \cup {<<>>, <<1>>, Append(to_be_bytes(0), 1)}
    ELSE Metas \cup {<<>>, <<255>>}

\* ------------------------------------------------------------------------
\* Menus: the declarative tree, keystrokes and native menu items
\* ------------------------------------------------------------------------

\* Stand-in for 2^64 in `tag as usize`: a negative tag wraps to an index
\* beyond every table.
UsizeModulus == 1073741824

\* `tag as usize` of an NSInteger.
as_usize(tag) == tag % UsizeModulus

\* Vec::get: None out of range (indices from 0).
vec_get(v, index) == IF index < Len(v) THEN Some(v[index + 1]) ELSE None

Modifiers == {"ctrl", "alt", "shift", "cmd"}

NoKeystroke ==
    [ok |-> TRUE, ctrl |-> FALSE, alt |-> FALSE, shift |-> FALSE, cmd |-> FALSE, key |-> None]

RECURSIVE ParseFrom(_, _, _)
ParseFrom(c, k, ks) ==
    IF k > Len(c) THEN ks
    ELSE IF c[k] \in Modifiers THEN ParseFrom(c, k + 1, [ks EXCEPT ![c[k]] = TRUE])
    ELSE IF k < Len(c) THEN [ks EXCEPT !.ok = FALSE]
    ELSE [ks EXCEPT !.key = Some(c[k])]

\* Keystroke::parse on the '-'-separated components of the accelerator:
\* modifiers, then the key; anything else is an error.
Keystroke_parse(c) ==
    LET r == ParseFrom(c, 1, NoKeystroke)
    IN  IF r.ok /\ IsSome(r.key) THEN r ELSE [r EXCEPT !.ok = FALSE]

\* MenuItem::Separator and MenuItem::Action { name, keystroke, action, arg }.
Separator ==
    [kind |-> "separator", name |-> "", keystroke |-> None, action |-> "", arg |-> None]

Action(name, keystroke, action, arg) ==
    [kind |-> "action", name |-> name, keystroke |-> keystroke, action |-> action, arg |-> arg]

\* Menu { name, items }.
Menu(name, items) == [name |-> name, items |-> items]

\* NSMenuItem::separatorItem: no action selector, setTag: never sent (the
\* tag property keeps its default).
separatorItem ==
    [title |-> "", selector |-> "", key |-> "", mask |-> {}, tag |-> 0, set_tag |-> FALSE]

\* The modifier mask of lines 127-136: command, control, alternate.
modifier_mask(ks) ==
    {f \in {"cmd", "ctrl", "alt"} : ks[f]}

\* initWithTitle:action:keyEquivalent: with the parsed keystroke (or the
\* empty accelerator), then setTag:.
action_item(name, ks, tag) ==
    [ title |-> name,
      selector |-> "handleGPUIMenuItem:",
      key |-> IF IsSome(ks) THEN Unwrap(Unwrap(ks).key) ELSE "",
      mask |-> IF IsSome(ks) THEN modifier_mask(Unwrap(ks)) ELSE {},
      tag |-> tag,
      set_tag |-> TRUE ]

\* A tag that is the item's position in its menu.
next_tag_positional(menu_actions, native) == Len(native)

\* Line 156: the tag is the current length of menu_actions.
next_tag(menu_actions, native) == Len(menu_actions)

\* A loop over one menu's items that leaves out an item whose keystroke
\* does not parse.
RECURSIVE build_items_skipping(_, _, _, _)
build_items_skipping(menu_name, items, menu_actions, native) ==
    IF items = <<>>
    THEN [menu_actions |-> menu_actions, native |-> native, panic |-> None]
    ELSE LET it == Head(items)
             ks == IF IsSome(it.keystroke)
                   THEN Some(Keystroke_parse(Unwrap(it.keystroke)))
                   ELSE None
         IN  IF it.kind = "separator"
             THEN build_items_skipping(menu_name, Tail(items), menu_actions,
                                       Append(native, separatorItem))
             ELSE IF IsSome(ks) /\ ~Unwrap(ks).ok
             THEN build_items_skipping(menu_name, Tail(items), menu_actions, native)
             ELSE build_items_skipping(menu_name, Tail(items),
                                       Append(menu_actions, [action |-> it.action, arg |-> it.arg]),
                                       Append(native,
                                              action_item(it.name, ks, Len(menu_actions))))

\* The loop over one menu's items (lines 106-163): the table and the native
\* items so far, and the panic of line 121 if a keystroke does not parse.
RECURSIVE build_items(_, _, _, _)
build_items(menu_name, items, menu_actions, native) ==
    IF items = <<>>
    THEN [menu_actions |-> menu_actions, native |-> native, panic |-> None]
    ELSE LET it == Head(items)
             ks == IF IsSome(it.keystroke)
                   THEN Some(Keystroke_parse(Unwrap(it.keystroke)))
                   ELSE None
         IN  IF it.kind = "separator"
             THEN build_items(menu_name, Tail(items), menu_actions,
                              Append(native, separatorItem))
             ELSE IF IsSome(ks) /\ ~Unwrap(ks).ok
             THEN [ menu_actions |-> menu_actions,
                    native |-> native,
                    panic |-> Some([menu |-> menu_name, item |-> it.name]) ]
             ELSE build_items(menu_name, Tail(items),
                              Append(menu_actions, [action |-> it.action, arg |-> it.arg]),
                              Append(native,
                                     action_item(it.name, ks, next_tag(menu_actions, native))))

\* The loop over the menus (lines 99-167).
RECURSIVE build_menus(_, _, _)
build_menus(menus, menu_actions, menu_bar) ==
    IF menus = <<>>
    THEN [menu_actions |-> menu_actions, menu_bar |-> menu_bar, panic |-> None]
    ELSE LET menu_config == Head(menus)
             r == build_items(menu_config.name, menu_config.items, menu_actions, <<>>)
         IN  IF IsSome(r.panic)
             THEN [menu_actions |-> r.menu_actions, menu_bar |-> menu_bar, panic |-> r.panic]
             ELSE build_menus(Tail(menus), r.menu_actions,
                              Append(menu_bar, [title |-> menu_config.name, items |-> r.native]))

\* MacForegroundPlatform::create_menu_bar with the RefCell free: clear the
\* table, then build. On a panic the table keeps what was pushed so far.
create_menu_bar(st, menus) ==
    LET r == build_menus(menus, <<>>, <<>>)
    IN  [ state |-> [st EXCEPT !.menu_actions = r.menu_actions],
          menu_bar |-> r.menu_bar,
          panic |-> r.panic ]

\* The platform and the native application's main menu, on which the
\* calls of the UI runtime act.
World(st, mm) == [state |-> st, main_menu |-> mm]

\* What a panic says: which panic it is and, for the panic of line 121, the
\* menu and the item its message names.
Message(kind, menu, item) == [kind |-> kind, menu |-> menu, item |-> item]

\* The outcome of a call: the world after it, whether it panicked and the
\* panic's message.
Returned(w) == [world |-> w, panicked |-> FALSE, message |-> None]

PanickedWith(w, msg) == [world |-> w, panicked |-> TRUE, message |-> Some(msg)]

Panicked(w) == PanickedWith(w, Message("panic", "", ""))

\* RefCell::borrow_mut on a cell that is already borrowed.
BorrowMutError == Message("BorrowMutError", "", "")

\* MacForegroundPlatform::set_menus: setMainMenu: with the new menu bar;
\* a panic in create_menu_bar leaves the main menu as it was.
set_menus(w, menus) ==
    LET r == create_menu_bar(w.state, menus)
    IN  IF IsSome(r.panic)
        THEN PanickedWith(World(r.state, w.main_menu),
                          Message("Invalid keystroke for menu item",
                                  Unwrap(r.panic).menu, Unwrap(r.panic).item))
        ELSE Returned(World(r.state, Some(r.menu_bar)))

\* MacForegroundPlatform::on_menu_command.
on_menu_command(w, callback) ==
    Returned([w EXCEPT !.state.menu_command = Some(callback)])

\* on_become_active and on_resign_active: the slot is overwritten.
on_become_active(w, callback) ==
    Returned([w EXCEPT !.state.become_active = Some(callback)])

on_resign_active(w, callback) ==
    Returned([w EXCEPT !.state.resign_active = Some(callback)])

\* The menu items and menus the UI runtime declares in the model.
ItNew == Action("New", None, "new", None)

ItSave == Action("Save", Some(<<"cmd", "s">>), "save", Some(1))

ItZoom == Action("Zoom", Some(<<"ctrl", "alt", "z">>), "zoom", Some(2))

ItBad == Action("Bad", Some(<<"s", "cmd">>), "bad", None)

MenuPool ==
    { Menu("File", <<ItNew, Separator, ItSave>>),
      Menu("Edit", <<Separator, ItZoom>>),
      Menu("View", <<>>),
      Menu("Help", <<ItSave, ItBad, ItNew>>) }

\* An on_event that also empties the open_files slot.
on_event_clobbering(w, callback) ==
    Returned([w EXCEPT !.state.event = Some(callback), !.state.open_files = None])

\* on_event and on_open_files: the slot is overwritten.
on_event(w, callback) ==
    Returned([w EXCEPT !.state.event = Some(callback)])

on_open_files(w, callback) ==
    Returned([w EXCEPT !.state.open_files = Some(callback)])

\* What a handler does when invoked: nothing on the platform, or one call
\* on it.
NoCall == [op |-> "none", handler |-> "", menus |-> <<>>]

\* The handlers (closures) the UI runtime installs. "h1", "h2", "e_pass",
\* "e_consume", "o1", "f1" and "f2" do not touch the platform; the others
\* make one call: "h_install" on_menu_command("h2"), "h_menus" set_menus
\* of the Edit menu, "e_install" on_event("e_consume"), "o_install"
\* on_become_active("h1"), "f_install" on_become_active("h1"), "e_quit"
\* MacPlatform::quit.
HandlerBody(h) ==
    CASE h = "h_install" -> [op |-> "on_menu_command", handler |-> "h2", menus |-> <<>>]
      [] h = "h_menus" ->
            [op |-> "set_menus", handler |-> "", menus |-> <<Menu("Edit", <<Separator, ItZoom>>)>>]
      [] h = "e_install" -> [op |-> "on_event", handler |-> "e_consume", menus |-> <<>>]
      [] h \in {"o_install", "f_install"} ->
            [op |-> "on_become_active", handler |-> "h1", menus |-> <<>>]
      [] h = "e_quit" -> [op |-> "quit", handler |-> "", menus |-> <<>>]
      [] OTHER -> NoCall

\* What an event handler returns: TRUE when it consumed the event.
HandlerReturns(h) == h \in {"e_consume", "e_quit"}

\* Closures for the become_active, resign_active and menu_command slots.
Handlers == {"h1", "h2", "h_install", "h_menus"}

\* Closures for the event slot.
EventHandlers == {"e_pass", "e_consume", "e_install"}

\* Event handlers of an application whose key binding quits.
QuitEventHandlers == {"e_pass", "e_quit"}

\* Closures for the open_files slot.
OpenFilesHandlers == {"o1", "o_install"}

\* The one-shot closures passed to run.
FinishHandlers == {"f1", "f2", "f_install"}

\* One call on the platform. MacPlatform::quit does not touch the RefCell;
\* for every other call, with the RefCell already mutably borrowed by the
\* dispatch entry point, borrow_mut panics (BorrowMutError).
platform_call(w, call, borrowed) ==
    IF call.op \in {"none", "quit"} THEN Returned(w)
    ELSE IF borrowed THEN PanickedWith(w, BorrowMutError)
    ELSE IF call.op = "on_menu_command" THEN on_menu_command(w, call.handler)
    ELSE IF call.op = "on_become_active" THEN on_become_active(w, call.handler)
    ELSE IF call.op = "on_resign_active" THEN on_resign_active(w, call.handler)
    ELSE IF call.op = "on_event" THEN on_event(w, call.handler)
    ELSE IF call.op = "on_open_files" THEN on_open_files(w, call.handler)
    ELSE set_menus(w, call.menus)

\* A handler invocation as seen from outside: the handler and its arguments.
Invocation(h, action, arg) == [handler |-> h, action |-> action, arg |-> arg]

\* A menu activation that takes the table entry after the tagged one.
handle_menu_item_off_by_one(w, tag) ==
    IF IsSome(w.state.menu_command)
    THEN LET callback == Unwrap(w.state.menu_command)
             entry == vec_get(w.state.menu_actions, as_usize(tag) + 1)
         IN  IF IsSome(entry)
             THEN [ out |-> Returned(w),
                    calls |-> <<Invocation(callback, Unwrap(entry).action, Unwrap(entry).arg)>>,
                    during |-> Some(w.state) ]
             ELSE [out |-> Returned(w), calls |-> <<>>, during |-> None]
    ELSE [out |-> Returned(w), calls |-> <<>>, during |-> None]

\* A menu activation that indexes the table without a range check.
handle_menu_item_unchecked(w, tag) ==
    IF IsSome(w.state.menu_command)
    THEN LET callback == Unwrap(w.state.menu_command)
             entry == vec_get(w.state.menu_actions, as_usize(tag))
         IN  IF IsSome(entry)
             THEN [ out |-> Returned(w),
                    calls |-> <<Invocation(callback, Unwrap(entry).action, Unwrap(entry).arg)>>,
                    during |-> Some(w.state) ]
             ELSE [ out |-> Panicked([w EXCEPT !.state.menu_command = None]),
                    calls |-> <<>>,
                    during |-> None ]
    ELSE [out |-> Returned(w), calls |-> <<>>, during |-> None]

\* handle_menu_item (lines 524-537): with the RefCell borrowed, take the
\* menu_command handler, look the tag up in menu_actions, invoke the
\* handler if the index is in range, put the handler back. A panic in the
\* handler unwinds past the restore: the taken handler is dropped.
handle_menu_item(w, tag) ==
    IF IsSome(w.state.menu_command)
    THEN LET callback == Unwrap(w.state.menu_command)
             taken == [w EXCEPT !.state.menu_command = None]
             entry == vec_get(taken.state.menu_actions, as_usize(tag))
         IN  IF IsSome(entry)
             THEN LET r == platform_call(taken, HandlerBody(callback), TRUE)
                      calls == <<Invocation(callback, Unwrap(entry).action, Unwrap(entry).arg)>>
                  IN  IF r.panicked
                      THEN [out |-> r, calls |-> calls, during |-> Some(taken.state)]
                      ELSE [ out |-> Returned([r.world EXCEPT !.state.menu_command = Some(callback)]),
                             calls |-> calls,
                             during |-> Some(taken.state) ]
             ELSE [ out |-> Returned([taken EXCEPT !.state.menu_command = Some(callback)]),
                    calls |-> <<>>,
                    during |-> None ]
    ELSE [out |-> Returned(w), calls |-> <<>>, during |-> None]

\* did_finish_launching that invokes the handler and leaves it in its slot.
did_finish_launching_no_take(w) ==
    IF IsSome(w.state.finish_launching)
    THEN [ out |-> Returned(w),
           calls |-> <<Invocation(Unwrap(w.state.finish_launching), "", None)>>,
           during |-> Some(w.state) ]
    ELSE [out |-> Returned(w), calls |-> <<>>, during |-> None]

\* did_finish_launching (lines 475-486): take the one-shot handler out of
\* its slot, releasing the borrow, and invoke it if there was one.
did_finish_launching(w) ==
    IF IsSome(w.state.finish_launching)
    THEN LET callback == Unwrap(w.state.finish_launching)
             taken == [w EXCEPT !.state.finish_launching = None]
         IN  [ out |-> platform_call(taken, HandlerBody(callback), FALSE),
               calls |-> <<Invocation(callback, "", None)>>,
               during |-> Some(taken.state) ]
    ELSE [out |-> Returned(w), calls |-> <<>>, during |-> None]

\* A notification that takes the handler out of its slot and invokes it.
did_change_active_consuming(w, slot) ==
    IF IsSome(w.state[slot])
    THEN [ out |-> Returned([w EXCEPT !.state[slot] = None]),
           calls |-> <<Invocation(Unwrap(w.state[slot]), "", None)>>,
           during |-> Some(w.state) ]
    ELSE [out |-> Returned(w), calls |-> <<>>, during |-> None]

\* did_become_active and did_resign_active (lines 488-500): invoke the
\* handler of `slot` in place, the RefCell borrowed while it runs.
did_change_active(w, slot) ==
    IF IsSome(w.state[slot])
    THEN LET callback == Unwrap(w.state[slot])
         IN  [ out |-> platform_call(w, HandlerBody(callback), TRUE),
               calls |-> <<Invocation(callback, "", None)>>,
               during |-> Some(w.state) ]
    ELSE [out |-> Returned(w), calls |-> <<>>, during |-> None]

\* The native events the application object receives.
NativeEvents == {"NSKeyDown", "NSAppKitDefined"}

\* Event::from_native: key events translate, AppKit's own events do not.
from_native(native_event) ==
    IF native_event = "NSKeyDown" THEN Some("KeyDown") ELSE None

\* send_event that falls through to the default handling whatever the
\* handler returned.
send_event_always_default(w, native_event) ==
    LET event == from_native(native_event)
    IN  IF IsSome(event) /\ IsSome(w.state.event)
        THEN [ out |-> Returned(w),
               calls |-> <<Invocation(Unwrap(w.state.event), Unwrap(event), None)>>,
               during |-> Some(w.state),
               fallthrough |-> 1 ]
        ELSE [out |-> Returned(w), calls |-> <<>>, during |-> None, fallthrough |-> 1]

\* send_event (lines 460-473): translate the native event; if it translates
\* and an event handler is installed, invoke it in place, the RefCell
\* borrowed while it runs, and return if it says consumed; in every other
\* case pass the native event to NSApplication's sendEvent: once.
send_event(w, native_event) ==
    LET event == from_native(native_event)
    IN  IF IsSome(event) /\ IsSome(w.state.event)
        THEN LET callback == Unwrap(w.state.event)
                 r == platform_call(w, HandlerBody(callback), TRUE)
             IN  [ out |-> r,
                   calls |-> <<Invocation(callback, Unwrap(event), None)>>,
                   during |-> Some(w.state),
                   fallthrough |-> IF r.panicked \/ HandlerReturns(callback) THEN 0 ELSE 1 ]
        ELSE [out |-> Returned(w), calls |-> <<>>, during |-> None, fallthrough |-> 1]

\* The paths of application:openFiles: as C strings: "/a" alone, and "/a"
\* with a path that is not UTF-8.
OpenFileRequests == {<<<<47, 97>>>>, <<<<47, 97>>, <<47, 255>>>>}

\* Lines 503-517: CStr::to_str on each path; a path that is not UTF-8 is
\* logged and left out.
RECURSIVE to_paths(_)
to_paths(paths) ==
    IF paths = <<>> THEN <<>>
    ELSE IF IsSome(from_utf8_ok(Head(paths)))
         THEN <<Head(paths)>> \o to_paths(Tail(paths))
         ELSE to_paths(Tail(paths))

\* open_files (lines 502-522): invoke the open_files handler in place with
\* the converted paths, the RefCell borrowed while it runs.
open_files(w, paths) ==
    IF IsSome(w.state.open_files)
    THEN LET callback == Unwrap(w.state.open_files)
         IN  [ out |-> platform_call(w, HandlerBody(callback), TRUE),
               calls |-> <<Invocation(callback, "", Some(to_paths(paths)))>>,
               during |-> Some(w.state) ]
    ELSE [out |-> Returned(w), calls |-> <<>>, during |-> None]

\* A quit that sends terminate: before it returns.
quit_inline(queue) == [queue |-> queue, terminated |-> TRUE]

\* MacPlatform::quit (lines 364-382): dispatch_async_f puts the function
\* that sends terminate: on the main queue; nothing is terminated here.
quit(queue) == [queue |-> Append(queue, "terminate"), terminated |-> FALSE]

\* ------------------------------------------------------------------------
\* File dialogs
\* ------------------------------------------------------------------------

\* platform::PathPromptOptions.
PathPromptOptions == [directories : BOOLEAN, files : BOOLEAN, multiple : BOOLEAN]

\* The closures passed as done_fn.
DoneHandlers == {"d1", "d2"}

\* The directories passed to prompt_for_new_path.
Directories == {"/home", "/tmp"}

\* absoluteString of the URLs a panel returns: the scheme prefix and the
\* rest of the string.
URLs == {<<"file://", "/a">>, <<"file://", "/b">>, <<"smb://", "host/c">>}

\* What the user selected in an open panel.
Selections == {<<>>, << <<"file://", "/a">> >>, << <<"smb://", "host/c">>, <<"file://", "/b">> >>}

Responses == {"NSModalResponseOk", "NSModalResponseCancel"}

\* str::strip_prefix("file://").
strip_prefix(string) == IF string[1] = "file://" THEN Some(string[2]) ELSE None

\* prompt_for_paths (lines 222-260), up to beginWithCompletionHandler:. The
\* panel with its configuration, the Cell holding done_fn, and what the
\* completion block has done so far: how often it ran, the first response
\* it got, the results it passed to done_fn.
prompt_for_paths(options, done_fn) ==
    [ kind |-> "open",
      directories |-> options.directories,
      files |-> options.files,
      multiple |-> options.multiple,
      resolves_aliases |-> FALSE,
      directory |-> None,
      done_fn |-> Some(done_fn),
      runs |-> 0, first |-> None, done |-> <<>> ]

\* prompt_for_new_path (lines 262-297), up to beginWithCompletionHandler:.
\* A save panel has none of the open panel's options.
prompt_for_new_path(directory, done_fn) ==
    [ kind |-> "save",
      directories |-> FALSE,
      files |-> FALSE,
      multiple |-> FALSE,
      resolves_aliases |-> FALSE,
      directory |-> Some(directory),
      done_fn |-> Some(done_fn),
      runs |-> 0, first |-> None, done |-> <<>> ]

\* Lines 236-247: the paths of the URLs that start with file://.
RECURSIVE paths_of(_)
paths_of(urls) ==
    IF urls = <<>> THEN <<>>
    ELSE LET path == strip_prefix(Head(urls))
         IN  (IF IsSome(path) THEN <<Unwrap(path)>> ELSE <<>>) \o paths_of(Tail(urls))

\* The result the completion block computes (lines 235-251 and 275-288).
block_result(panel, response, urls) ==
    IF response # "NSModalResponseOk" THEN None
    ELSE IF panel.kind = "open" THEN Some(paths_of(urls))
    ELSE strip_prefix(urls[1])

\* A completion block that calls done_fn without taking it out of the Cell.
completion_block_no_take(panel, response, urls) ==
    [ panel EXCEPT
        !.runs = @ + 1,
        !.first = IF panel.runs = 0 THEN Some(response) ELSE @,
        !.done = Append(@, [ handler |-> Unwrap(panel.done_fn),
                             result |-> block_result(panel, response, urls) ]) ]

\* The completion block (lines 234-256 and 274-293): compute the result,
\* take done_fn out of the Cell and call it if it was still there.
completion_block(panel, response, urls) ==
    [ panel EXCEPT
        !.runs = @ + 1,
        !.first = IF panel.runs = 0 THEN Some(response) ELSE @,
        !.done_fn = None,
        !.done = IF IsSome(panel.done_fn)
                 THEN Append(@, [ handler |-> Unwrap(panel.done_fn),
                                  result |-> block_result(panel, response, urls) ])
                 ELSE @ ]

\* Longest menu tree passed to set_menus.
MaxMenus == 2

MenuTrees == SeqsUpTo(MenuPool, MaxMenus)

\* Largest tag of an activated native item; -1 is the smallest.
MaxTag == 4

Tags == -1 .. MaxTag

\* A panic reaches the extern "C" boundary of a dispatch entry point, or
\* the caller of set_menus: the process is aborted, or the panic unwinds
\* (dropping the borrow and the locals) and the process goes on.
PanicOutcomes == {"aborted", "unwound"}

\* ------------------------------------------------------------------------
\* State
\* ------------------------------------------------------------------------

VARIABLES
    pasteboard,     \* the system pasteboard: slot kind -> Option<bytes>
    cb_written,     \* Option<item>: the argument of the last write_to_clipboard
    cb_ext,         \* foreign writes since then: "none", "text" (text slot only), "other"
    cb_result,      \* Some(result) of the read_from_clipboard that was the last
                    \* operation and returned (the result is itself an
                    \* Option<item>), else None
    cb_last         \* the last clipboard operation; "read_aborted" is a
                    \* read_from_clipboard that aborted the process

cb_vars == <<cb_written, cb_ext, cb_result, cb_last>>

VARIABLES
    inst,           \* per application instance: where its clipboard call stands
                    \* and the locals of that call
    st_result       \* Some(result) of the last read_from_clipboard that
                    \* returned, statement by statement; None before

st_vars == <<inst, st_result>>

VARIABLES
    state,          \* MacForegroundPlatformState, the content of the RefCell
    main_menu,      \* Option<menu bar>: the native application's main menu
    platform_ivar,  \* the "platform" ivar of the shared application object
                    \* and of its delegate: "null" or "platform"; "absent"
                    \* while the object does not exist; the application's
                    \* is "no_ivar" when the shared application is a plain
                    \* NSApplication
    event_loop,     \* "running" while app.run() is in progress, else "stopped"
    activation,     \* the native application's activation policy
    alive,          \* FALSE once the process is gone: aborted by a panic, or
                    \* terminated
    fl_count,       \* invocations of the handler passed to the last run
    last,           \* the last operation: what it was given, the state before
                    \* it, the handler invocations it made, how it ended
    panels,         \* the file dialogs begun so far, in order
    main_queue,     \* the functions waiting on the main dispatch queue
    termination     \* how terminate: was sent: "none", "inline" (before
                    \* quit returned) or "from_queue"

q_vars == <<main_queue, termination>>

run_vars == <<platform_ivar, event_loop>>

\* The foreground platform's variables but `alive`.
fp_rest == <<state, main_menu, run_vars, activation, fl_count, last, panels, q_vars>>

fp_vars ==
    <<state, main_menu, run_vars, activation, alive, fl_count, last, panels, q_vars>>

vars == <<pasteboard, cb_vars, st_vars, fp_vars>>

cb_Init ==
    /\ pasteboard = EmptyPasteboard
    /\ cb_written = None
    /\ cb_ext = "none"
    /\ cb_result = None
    /\ cb_last = "init"

\* Two instances of the application share the system pasteboard.
Instances == {1, 2}

\* An instance outside any clipboard call.
Idle == [pc |-> "idle", item |-> ClipboardItem(<<>>, None), text |-> <<>>, hash |-> None]

st_Init ==
    /\ inst = [i \in Instances |-> Idle]
    /\ st_result = None

\* The objects that carry the "platform" ivar, and the object each
\* dispatch entry point is a method of (build_classes, lines 39-76).
Objects == {"app", "delegate"}

ReceiverOf(op) == IF op = "send_event" THEN "app" ELSE "delegate"

\* Before the first call that asks for it there is no shared application,
\* and before the first run the application has no delegate.
NoBackReference == [app |-> "absent", delegate |-> "absent"]

\* [class sharedApplication]: the first call creates the shared
\* application as an instance of the receiving class, every later call
\* returns that object. GPUIApplication declares the "platform" ivar
\* (lines 41-49, null in a new object), NSApplication has none.
sharedApplication(ivars, class) ==
    IF ivars.app = "absent"
    THEN [ivars EXCEPT !.app = IF class = "GPUIApplication" THEN "null" ELSE "no_ivar"]
    ELSE ivars

\* MacPlatform::activate (lines 340-345) asks NSApplication for the shared
\* application.
activate(ivars) == sharedApplication(ivars, "NSApplication")

\* run, line 199: set_ivar panics on an object that has no such ivar.
run_panics(ivars) == sharedApplication(ivars, "GPUIApplication").app = "no_ivar"

\* run, lines 194-200: the shared application gets a new delegate, and the
\* pointer to the platform is stored on both objects, unless the store on
\* the application panics.
run_store(ivars) ==
    IF run_panics(ivars)
    THEN [app |-> "no_ivar", delegate |-> "null"]
    ELSE [o \in Objects |-> "platform"]

\* run, lines 206-207: both ivars are set to null.
run_clear(ivars) == [o \in Objects |-> "null"]

\* MacForegroundPlatformState::default().
DefaultState ==
    [ become_active |-> None,
      resign_active |-> None,
      event |-> None,
      menu_command |-> None,
      open_files |-> None,
      finish_launching |-> None,
      menu_actions |-> <<>> ]

\* The record of an operation: its name and arguments, the state before it
\* (for set_menus only whether menu_actions had entries), the handler
\* invocations it made with the state each handler found, how it ended,
\* the handler or native event it was given, how often it passed a native
\* event to the default handling, and the message of its panic.
Op(name, tag, menus, pre) ==
    [ op |-> name, tag |-> tag, menus |-> menus, pre |-> pre,
      pre_built |-> state.menu_actions # <<>>,
      calls |-> <<>>, during |-> None, outcome |-> "returned",
      arg |-> "", fallthrough |-> 0, message |-> None ]

fp_Init ==
    /\ state = DefaultState
    /\ main_menu = None
    /\ platform_ivar = NoBackReference
    /\ event_loop = "stopped"
    /\ activation = "default"
    /\ alive = TRUE
    /\ fl_count = 0
    /\ last = [ op |-> "none", tag |-> 0, menus |-> <<>>, pre |-> None, pre_built |-> FALSE,
                calls |-> <<>>, during |-> None, outcome |-> "returned",
                arg |-> "", fallthrough |-> 0, message |-> None ]
    /\ panels = <<>>
    /\ main_queue = <<>>
    /\ termination = "none"

Init == cb_Init /\ st_Init /\ fp_Init

\* ------------------------------------------------------------------------
\* Clipboard operations, each call atomic
\* ------------------------------------------------------------------------

\* platform.write_to_clipboard(item)
WriteToClipboard ==
    \E item \in Items :
        /\ alive
        /\ pasteboard' = write_to_clipboard(pasteboard, item)
        /\ cb_written' = Some(item)
        /\ cb_ext' = "none"
        /\ cb_result' = None
        /\ cb_last' = "write"
        /\ UNCHANGED <<st_vars, fp_vars>>

\* platform.read_from_clipboard()
ReadFromClipboard ==
    \E ub \in EmptySliceOutcomes :
        /\ alive
        /\ alive' = ~read_from_clipboard(pasteboard, ub).aborted
        /\ cb_result' = IF read_from_clipboard(pasteboard, ub).aborted
                        THEN None
                        ELSE Some(read_from_clipboard(pasteboard, ub).value)
        /\ cb_last' = IF read_from_clipboard(pasteboard, ub).aborted
                      THEN "read_aborted" ELSE "read"
        /\ UNCHANGED <<pasteboard, cb_written, cb_ext>>
        /\ UNCHANGED <<st_vars, fp_rest>>

\* Another process stores data in one slot (the test's setData_forType on
\* the plain-text type).
ExtSetData ==
    \E kind \in SlotKinds : \E data \in ExtData(kind) :
        /\ pasteboard' = setData_forType(pasteboard, data, kind)
        /\ cb_ext' = IF kind = "text" /\ cb_ext \in {"none", "text"} THEN "text" ELSE "other"
        /\ cb_result' = None
        /\ cb_last' = "ext"
        /\ UNCHANGED cb_written
        /\ UNCHANGED <<st_vars, fp_vars>>

\* Another process clears the pasteboard.
ExtClear ==
    /\ pasteboard' = clearContents(pasteboard)
    /\ cb_ext' = "other"
    /\ cb_result' = None
    /\ cb_last' = "ext"
    /\ UNCHANGED cb_written
    /\ UNCHANGED <<st_vars, fp_vars>>

ClipboardNext ==
    \/ WriteToClipboard
    \/ ReadFromClipboard
    \/ ExtSetData
    \/ ExtClear

SpecClipboard == Init /\ [][ClipboardNext]_vars

\* ------------------------------------------------------------------------
\* Clipboard operations statement by statement: the pasteboard is shared
\* with other processes, so each message to it is a step of its own
\* ------------------------------------------------------------------------

\* The items the instances write here: each metadata goes with one text.
PairedItems ==
    { ClipboardItem(<<97>>, Some(<<109>>)),
      ClipboardItem(<<195, 169>>, Some(<<110>>)),
      ClipboardItem(<<>>, None) }

\* The texts at play in the stepwise runs: other processes copy the same
\* texts, as plain text.
StepTexts == {it.text : it \in PairedItems}

\* write_to_clipboard, line 386: clearContents.
StepWriteClear(i) ==
    \E item \in PairedItems :
        /\ inst[i].pc = "idle"
        /\ pasteboard' = clearContents(pasteboard)
        /\ inst' = [inst EXCEPT ![i] = [Idle EXCEPT !.pc = "w_text", !.item = item]]
        /\ UNCHANGED <<cb_vars, st_result, fp_vars>>

\* write_to_clipboard, lines 388-394: the plain-text slot.
StepWriteText(i) ==
    /\ inst[i].pc = "w_text"
    /\ pasteboard' = setData_forType(pasteboard, inst[i].item.text, "text")
    /\ inst' = [inst EXCEPT ![i] =
                    IF IsSome(inst[i].item.metadata) THEN [@ EXCEPT !.pc = "w_hash"] ELSE Idle]
    /\ UNCHANGED <<cb_vars, st_result, fp_vars>>

\* write_to_clipboard, lines 397-404: the hash slot.
StepWriteHash(i) ==
    /\ inst[i].pc = "w_hash"
    /\ pasteboard' = setData_forType(pasteboard, to_be_bytes(text_hash(inst[i].item.text)), "hash")
    /\ inst' = [inst EXCEPT ![i].pc = "w_meta"]
    /\ UNCHANGED <<cb_vars, st_result, fp_vars>>

\* write_to_clipboard, lines 406-412: the metadata slot.
StepWriteMeta(i) ==
    /\ inst[i].pc = "w_meta"
    /\ pasteboard' = setData_forType(pasteboard, Unwrap(inst[i].item.metadata), "meta")
    /\ inst' = [inst EXCEPT ![i] = Idle]
    /\ UNCHANGED <<cb_vars, st_result, fp_vars>>

\* An instance whose process was aborted.
Gone == [Idle EXCEPT !.pc = "aborted"]

\* read_from_clipboard, line 419: the plain-text slot; None ends the call.
StepReadText(i) ==
    \E ub \in EmptySliceOutcomes :
        /\ inst[i].pc = "idle"
        /\ IF read_from_pasteboard(pasteboard, "text", ub).aborted
           THEN /\ inst' = [inst EXCEPT ![i] = Gone]
                /\ UNCHANGED st_result
           ELSE IF IsSome(read_from_pasteboard(pasteboard, "text", ub).value)
           THEN /\ inst' = [inst EXCEPT ![i] =
                               [Idle EXCEPT
                                  !.pc = "r_hash",
                                  !.text = Unwrap(read_from_pasteboard(pasteboard, "text", ub).value)]]
                /\ UNCHANGED st_result
           ELSE /\ st_result' = Some(None)
                /\ UNCHANGED inst
        /\ UNCHANGED <<pasteboard, cb_vars, fp_vars>>

\* read_from_clipboard, lines 421-424: the hash slot.
StepReadHash(i) ==
    \E ub \in EmptySliceOutcomes :
        /\ inst[i].pc = "r_hash"
        /\ inst' = [inst EXCEPT ![i] =
                        IF read_from_pasteboard(pasteboard, "hash", ub).aborted
                        THEN Gone
                        ELSE [@ EXCEPT !.pc = "r_meta",
                                       !.hash = read_from_pasteboard(pasteboard, "hash", ub).value]]
        /\ UNCHANGED <<pasteboard, cb_vars, st_result, fp_vars>>

\* read_from_clipboard, lines 425-446: the metadata slot and the result.
StepReadMeta(i) ==
    \E ub \in EmptySliceOutcomes :
        /\ inst[i].pc = "r_meta"
        /\ IF read_from_pasteboard(pasteboard, "meta", ub).aborted
           THEN /\ inst' = [inst EXCEPT ![i] = Gone]
                /\ UNCHANGED st_result
           ELSE /\ st_result' =
                       Some(Some(item_from_slots(
                                     inst[i].text, inst[i].hash,
                                     read_from_pasteboard(pasteboard, "meta", ub).value)))
                /\ inst' = [inst EXCEPT ![i] = Idle]
        /\ UNCHANGED <<pasteboard, cb_vars, fp_vars>>

\* A process that knows only the plain-text type copies a text.
StepForeignText ==
    \E t \in StepTexts :
        /\ pasteboard' = setData_forType(pasteboard, t, "text")
        /\ UNCHANGED <<cb_vars, st_vars, fp_vars>>

StepNext ==
    \/ \E i \in Instances :
          \/ StepWriteClear(i)
          \/ StepWriteText(i)
          \/ StepWriteHash(i)
          \/ StepWriteMeta(i)
          \/ StepReadText(i)
          \/ StepReadHash(i)
          \/ StepReadMeta(i)
    \/ StepForeignText

SpecClipboardSteps == Init /\ [][StepNext]_vars

\* The text hash separates the texts in S.
CollisionFree(S) == \A t1, t2 \in S : t1 # t2 => text_hash(t1) # text_hash(t2)

\* C3 Stale metadata is never surfaced under interleaving: with a
\* collision-free hash on the texts written, a read_from_clipboard whose
\* statements interleave with those of write_to_clipboard in another
\* instance and with foreign text writes returns metadata M only together
\* with the text M was written with.
C3_NoStaleMetadata ==
    (/\ CollisionFree(StepTexts)
     /\ IsSome(st_result)
     /\ IsSome(Unwrap(st_result))
     /\ IsSome(Unwrap(Unwrap(st_result)).metadata))
        => Unwrap(Unwrap(st_result)) \in PairedItems

\* The item of the last write_to_clipboard, and the result of the read that
\* was the last operation.
Written == Unwrap(cb_written)

ReadResult == Unwrap(cb_result)

\* A read_from_clipboard, returned or aborted, is the last operation.
ReadDone == cb_last \in {"read", "read_aborted"}

\* A read is the last operation and no slot changed since the last
\* write_to_clipboard.
ReadRightAfterWrite ==
    ReadDone /\ IsSome(cb_written) /\ cb_ext = "none"

\* C1 Clipboard round trip: a read_from_clipboard that follows
\* write_to_clipboard({T, M}) with no clipboard write in between returns
\* an item with text T and metadata M (absent if M was absent), whatever the
\* pasteboard held before the write.
C1_RoundTrip ==
    ReadRightAfterWrite =>
        /\ cb_last = "read"
        /\ ReadResult = Some(ClipboardItem(Written.text, Written.metadata))

\* After write_to_clipboard({T, M}) with M present, only the plain-text
\* slot was overwritten from outside, with a text T2 other than T, and then
\* read_from_clipboard ran.
ReadAfterForeignText ==
    /\ ReadDone
    /\ IsSome(cb_written)
    /\ IsSome(Written.metadata)
    /\ cb_ext = "text"
    /\ Unwrap(pasteboard.text) \in Texts
    /\ Unwrap(pasteboard.text) # Written.text

\* C2 Cross-process invalidation: after write_to_clipboard({T, M}) with M
\* present and a foreign write of a text T2 other than T to the plain-text
\* slot alone, read_from_clipboard returns {T2, metadata absent}, for every
\* pair of distinct texts.
C2_Invalidation ==
    ReadAfterForeignText =>
        /\ cb_last = "read"
        /\ ReadResult = Some(ClipboardItem(Unwrap(pasteboard.text), None))

\* C4 A write without metadata leaves no stale hash or metadata: right
\* after write_to_clipboard({T, absent}) the two private slots are absent,
\* and the read that follows returns {T, absent}, also when the pasteboard
\* held the hash of T and metadata before the write.
C4_NoStalePrivateSlots ==
    (IsSome(cb_written) /\ cb_ext = "none" /\ Written.metadata = None) =>
        /\ pasteboard.hash = None
        /\ pasteboard.meta = None
        /\ ReadDone =>
               cb_last = "read" /\ ReadResult = Some(ClipboardItem(Written.text, None))

\* C5 read_from_clipboard returns empty exactly when the plain-text slot is
\* absent, whatever the private slots hold; with a plain-text slot it
\* returns an item carrying the slot's text (decoded as UTF-8, lossily).
C5_EmptyIffNoText ==
    ReadDone =>
        /\ cb_last = "read"
        /\ (ReadResult = None) <=> (pasteboard.text = None)
        /\ IsSome(pasteboard.text) =>
               Unwrap(ReadResult).text = from_utf8_lossy(Unwrap(pasteboard.text))

\* ------------------------------------------------------------------------
\* The foreground platform: calls of the UI runtime and native events, all
\* on the UI thread, each one atomic
\* ------------------------------------------------------------------------

Unrelated == <<pasteboard, cb_vars, st_vars, panels>>

TheWorld == World(state, main_menu)

\* get_foreground_platform without its assertion.
get_foreground_platform_unchecked(ivar) == TRUE

\* get_foreground_platform (lines 454-458): the ivar must not be null.
get_foreground_platform(ivar) == ivar # "null"

\* The world after an operation, and how it ended: a panic aborts the
\* process or unwinds.
Commit(rec, r) ==
    /\ state' = r.world.state
    /\ main_menu' = r.world.main_menu
    /\ \E o \in (IF r.panicked THEN PanicOutcomes ELSE {"returned"}) :
          /\ alive' = (o # "aborted")
          /\ last' = [rec EXCEPT !.outcome = o, !.message = r.message]

\* Longest main queue the model follows.
MaxQueue == 2

\* What the invoked handler's call of MacPlatform::quit, if it makes one,
\* does to the main queue.
QuitEffect(calls) ==
    IF calls # <<>> /\ HandlerBody(calls[1].handler).op = "quit"
    THEN quit(main_queue)
    ELSE [queue |-> main_queue, terminated |-> FALSE]

\* A native notification enters a dispatch entry point: the result of the
\* entry point, or the failed assertion of get_foreground_platform.
Dispatch(rec, d) ==
    IF get_foreground_platform(platform_ivar[ReceiverOf(rec.op)])
    THEN /\ Commit([rec EXCEPT !.calls = d.calls, !.during = d.during], d.out)
         /\ LET q == QuitEffect(d.calls)
            IN  /\ Len(q.queue) <= MaxQueue
                /\ main_queue' = q.queue
                /\ termination' = IF q.terminated THEN "inline" ELSE termination
    ELSE /\ Commit(rec, PanickedWith(TheWorld, Message("assertion failed", "", "")))
         /\ UNCHANGED q_vars

\* The native event loop runs the main queue and the completion handlers
\* while app.run() runs.
LoopRunning == alive /\ event_loop = "running"

\* A message reaches a dispatch entry point of `receiver`. The event loop of
\* app.run() sends them; the application object and the delegate of the
\* last run outlive that loop, and whatever sends them sendEvent: or a
\* delegate message outside app.run() enters the same extern "C" functions.
\* A plain NSApplication has no send_event.
Delivered(receiver) == alive /\ platform_ivar[receiver] \in {"null", "platform"}

\* The world and the result of run(callback) up to app.run(): the handler
\* is stored first (line 191), then the ivars are.
run(w, callback, ivars) ==
    IF run_panics(ivars)
    THEN PanickedWith([w EXCEPT !.state.finish_launching = Some(callback)],
                      Message("Ivar platform not found", "", ""))
    ELSE Returned([w EXCEPT !.state.finish_launching = Some(callback)])

\* platform.run(on_finish_launching), up to app.run() (lines 190-203); the
\* event loop starts unless run panicked.
Run ==
    \E callback \in FinishHandlers :
        /\ alive
        /\ event_loop = "stopped"
        /\ platform_ivar' = run_store(platform_ivar)
        /\ event_loop' = IF run_panics(platform_ivar) THEN "stopped" ELSE "running"
        /\ fl_count' = 0
        /\ Commit(Op("run", 0, <<>>, Some(state)), run(TheWorld, callback, platform_ivar))
        /\ UNCHANGED <<activation, Unrelated, q_vars>>

\* platform.activate(ignoring_other_apps), called outside any handler.
Activate ==
    /\ alive
    /\ platform_ivar' = activate(platform_ivar)
    /\ Commit(Op("activate", 0, <<>>, Some(state)), Returned(TheWorld))
    /\ UNCHANGED <<event_loop, activation, fl_count, Unrelated, q_vars>>

\* app.run() returns and run clears the ivars (lines 204-207).
RunExit ==
    /\ LoopRunning
    /\ platform_ivar' = run_clear(platform_ivar)
    /\ event_loop' = "stopped"
    /\ Commit(Op("run_exit", 0, <<>>, Some(state)), Returned(TheWorld))
    /\ UNCHANGED <<activation, fl_count, Unrelated, q_vars>>

\* platform.set_menus(menus), called outside any handler, with a menu tree
\* of `trees`; it asks GPUIApplication for the shared application first
\* (line 217).
SetMenusFrom(trees) ==
    \E menus \in trees :
        /\ alive
        /\ platform_ivar' = sharedApplication(platform_ivar, "GPUIApplication")
        /\ Commit(Op("set_menus", 0, menus, None), set_menus(TheWorld, menus))
        /\ UNCHANGED <<event_loop, activation, fl_count, Unrelated, q_vars>>

SetMenus == SetMenusFrom(MenuTrees)

\* platform.on_menu_command(callback), called outside any handler.
OnMenuCommand ==
    \E callback \in Handlers :
        /\ alive
        /\ Commit([Op("on_menu_command", 0, <<>>, Some(state)) EXCEPT !.arg = callback],
                  on_menu_command(TheWorld, callback))
        /\ UNCHANGED <<run_vars, activation, fl_count, Unrelated, q_vars>>

\* platform.on_become_active(callback), called outside any handler.
OnBecomeActive ==
    \E callback \in Handlers :
        /\ alive
        /\ Commit([Op("on_become_active", 0, <<>>, Some(state)) EXCEPT !.arg = callback],
                  on_become_active(TheWorld, callback))
        /\ UNCHANGED <<run_vars, activation, fl_count, Unrelated, q_vars>>

\* platform.on_resign_active(callback), called outside any handler.
OnResignActive ==
    \E callback \in Handlers :
        /\ alive
        /\ Commit([Op("on_resign_active", 0, <<>>, Some(state)) EXCEPT !.arg = callback],
                  on_resign_active(TheWorld, callback))
        /\ UNCHANGED <<run_vars, activation, fl_count, Unrelated, q_vars>>

\* handleGPUIMenuItem: a native item with this tag is activated.
HandleMenuItem ==
    \E tag \in Tags :
        /\ Delivered("delegate")
        /\ Dispatch(Op("handle_menu_item", tag, <<>>, Some(state)),
                    handle_menu_item(TheWorld, tag))
        /\ UNCHANGED <<run_vars, activation, fl_count, Unrelated>>

\* Largest count of finish-launching invocations the model tells apart.
MaxCount == 3

\* applicationDidFinishLaunching:
DidFinishLaunching ==
    /\ Delivered("delegate")
    /\ activation' = "regular"
    /\ LET d == did_finish_launching(TheWorld)
           n == IF get_foreground_platform(platform_ivar.delegate) THEN Len(d.calls) ELSE 0
       IN  /\ fl_count' = IF fl_count + n > MaxCount THEN MaxCount ELSE fl_count + n
           /\ Dispatch(Op("did_finish_launching", 0, <<>>, Some(state)), d)
    /\ UNCHANGED <<run_vars, Unrelated>>

\* applicationDidBecomeActive:
DidBecomeActive ==
    /\ Delivered("delegate")
    /\ Dispatch(Op("did_become_active", 0, <<>>, Some(state)),
                did_change_active(TheWorld, "become_active"))
    /\ UNCHANGED <<run_vars, activation, fl_count, Unrelated>>

\* applicationDidResignActive:
DidResignActive ==
    /\ Delivered("delegate")
    /\ Dispatch(Op("did_resign_active", 0, <<>>, Some(state)),
                did_change_active(TheWorld, "resign_active"))
    /\ UNCHANGED <<run_vars, activation, fl_count, Unrelated>>

\* platform.on_event(callback), called outside any handler, with a closure
\* of `pool`.
OnEvent(pool) ==
    \E callback \in pool :
        /\ alive
        /\ Commit([Op("on_event", 0, <<>>, Some(state)) EXCEPT !.arg = callback],
                  on_event(TheWorld, callback))
        /\ UNCHANGED <<run_vars, activation, fl_count, Unrelated, q_vars>>

\* platform.on_open_files(callback), called outside any handler.
OnOpenFiles ==
    \E callback \in OpenFilesHandlers :
        /\ alive
        /\ Commit([Op("on_open_files", 0, <<>>, Some(state)) EXCEPT !.arg = callback],
                  on_open_files(TheWorld, callback))
        /\ UNCHANGED <<run_vars, activation, fl_count, Unrelated, q_vars>>

\* The record of a send_event and its commit. The platform is looked up
\* only if the event translates.
SendEventStep(native_event, d) ==
    IF from_native(native_event) = None
    THEN /\ Commit([ Op("send_event", 0, <<>>, Some(state)) EXCEPT
                       !.arg = native_event, !.fallthrough = d.fallthrough ],
                   d.out)
         /\ UNCHANGED q_vars
    ELSE Dispatch([ Op("send_event", 0, <<>>, Some(state)) EXCEPT
                      !.arg = native_event,
                      !.fallthrough = IF get_foreground_platform(platform_ivar.app)
                                      THEN d.fallthrough ELSE 0 ],
                  d)

\* sendEvent: the application object receives a native event.
SendEvent ==
    \E native_event \in NativeEvents :
        /\ Delivered("app")
        /\ SendEventStep(native_event, send_event(TheWorld, native_event))
        /\ UNCHANGED <<run_vars, activation, fl_count, Unrelated>>

\* application:openFiles:
OpenFiles ==
    \E paths \in OpenFileRequests :
        /\ Delivered("delegate")
        /\ Dispatch(Op("open_files", 0, <<>>, Some(state)), open_files(TheWorld, paths))
        /\ UNCHANGED <<run_vars, activation, fl_count, Unrelated>>

\* MacPlatform::quit called outside any dispatch entry point.
Quit ==
    /\ alive
    /\ LET q == quit(main_queue)
       IN  /\ Len(q.queue) <= MaxQueue
           /\ main_queue' = q.queue
           /\ termination' = IF q.terminated THEN "inline" ELSE termination
    /\ Commit(Op("quit", 0, <<>>, Some(state)), Returned(TheWorld))
    /\ UNCHANGED <<run_vars, activation, fl_count, Unrelated>>

\* The event loop, outside every callback, runs the function quit put on
\* the main queue (lines 378-381): terminate: ends the application.
QuitTask ==
    /\ LoopRunning
    /\ main_queue # <<>>
    /\ main_queue' = Tail(main_queue)
    /\ termination' = "from_queue"
    /\ alive' = FALSE
    /\ last' = [Op("quit_task", 0, <<>>, Some(state)) EXCEPT !.outcome = "terminated"]
    /\ UNCHANGED <<state, main_menu, run_vars, activation, fl_count, Unrelated>>

\* Most dialogs begun in one run of the model.
MaxPanels == 1

\* Most runs of one panel's completion block.
MaxBlockRuns == 2

\* What no dialog operation touches.
NoDialog ==
    << pasteboard, cb_vars, st_vars, state, main_menu, run_vars, activation,
       alive, fl_count, last, q_vars >>

\* platform.prompt_for_paths(options, done_fn).
PromptForPaths ==
    \E options \in PathPromptOptions, done_fn \in DoneHandlers :
        /\ alive
        /\ Len(panels) < MaxPanels
        /\ panels' = Append(panels, prompt_for_paths(options, done_fn))
        /\ UNCHANGED NoDialog

\* platform.prompt_for_new_path(directory, done_fn).
PromptForNewPath ==
    \E directory \in Directories, done_fn \in DoneHandlers :
        /\ alive
        /\ Len(panels) < MaxPanels
        /\ panels' = Append(panels, prompt_for_new_path(directory, done_fn))
        /\ UNCHANGED NoDialog

\* The panels's completion block runs: the user dismissed the panel with
\* `response`; an open panel has the selected URLs (one at most unless it
\* allows multiple selection), a save panel its one URL.
CompletionHandler ==
    \E i \in 1 .. Len(panels), response \in Responses :
        \E urls \in (IF panels[i].kind = "open"
                     THEN {sel \in Selections : Len(sel) <= 1 \/ panels[i].multiple}
                     ELSE {<<u>> : u \in URLs}) :
            /\ LoopRunning
            /\ panels[i].runs < MaxBlockRuns
            /\ panels' = [panels EXCEPT ![i] = completion_block(@, response, urls)]
            /\ UNCHANGED NoDialog

\* The platform once run has entered the event loop and the
\* finish-launching handler has fired.
InitLaunched ==
    /\ cb_Init
    /\ st_Init
    /\ state = DefaultState
    /\ main_menu = None
    /\ platform_ivar = run_store(NoBackReference)
    /\ event_loop = "running"
    /\ activation = "regular"
    /\ alive = TRUE
    /\ fl_count = 1
    /\ last = [ op |-> "did_finish_launching", tag |-> 0, menus |-> <<>>,
                pre |-> Some([DefaultState EXCEPT !.finish_launching = Some("f1")]),
                pre_built |-> FALSE,
                calls |-> <<Invocation("f1", "", None)>>,
                during |-> Some(DefaultState),
                outcome |-> "returned",
                arg |-> "", fallthrough |-> 0, message |-> None ]
    /\ panels = <<>>
    /\ main_queue = <<>>
    /\ termination = "none"

\* Menus: building the menu bar, installing the menu_command handler and
\* activating menu items, while the event loop runs.
MenusNext ==
    \/ SetMenus
    \/ OnMenuCommand
    \/ HandleMenuItem

SpecMenus == InitLaunched /\ [][MenusNext]_vars

\* Lifecycle: run and the application delegate's lifecycle notifications.
LifecycleNext ==
    \/ Activate
    \/ Run
    \/ RunExit
    \/ OnBecomeActive
    \/ OnResignActive
    \/ DidFinishLaunching
    \/ DidBecomeActive
    \/ DidResignActive

SpecLifecycle == Init /\ [][LifecycleNext]_vars

\* The menu tree built in the runs that follow the handlers.
HandlerMenuTrees == {<<Menu("File", <<ItNew, Separator, ItSave>>)>>}

\* Handlers: installing into the five persistent slots and the native
\* notifications that invoke them, while the event loop runs.
HandlersNext ==
    \/ SetMenusFrom(HandlerMenuTrees)
    \/ OnBecomeActive
    \/ OnResignActive
    \/ OnEvent(EventHandlers)
    \/ OnOpenFiles
    \/ OnMenuCommand
    \/ DidBecomeActive
    \/ DidResignActive
    \/ SendEvent
    \/ OpenFiles
    \/ HandleMenuItem

SpecHandlers == InitLaunched /\ [][HandlersNext]_vars

\* Quitting: from an event handler or from outside, and the main queue,
\* among open-files notifications.
QuitNext ==
    \/ OnEvent(QuitEventHandlers)
    \/ SendEvent
    \/ OnOpenFiles
    \/ OpenFiles
    \/ Quit
    \/ QuitTask

SpecQuit == InitLaunched /\ [][QuitNext]_vars

\* File dialogs while the event loop runs.
DialogsNext ==
    \/ PromptForPaths
    \/ PromptForNewPath
    \/ CompletionHandler

SpecDialogs == InitLaunched /\ [][DialogsNext]_vars

\* The back-reference: run, handler installs, and every dispatch entry
\* point, delivered inside and outside app.run().
BackReferenceNext ==
    \/ Activate
    \/ Run
    \/ RunExit
    \/ OnBecomeActive
    \/ OnMenuCommand
    \/ OnEvent(EventHandlers)
    \/ SendEvent
    \/ DidFinishLaunching
    \/ DidBecomeActive
    \/ DidResignActive
    \/ OpenFiles
    \/ HandleMenuItem

SpecBackReference == Init /\ [][BackReferenceNext]_vars

\* ------------------------------------------------------------------------
\* Claims about the menu table and the menu activation
\* ------------------------------------------------------------------------

RECURSIVE Flatten(_)
Flatten(seqs) == IF seqs = <<>> THEN <<>> ELSE Head(seqs) \o Flatten(Tail(seqs))

\* The items of a menu tree in declaration order: menus left to right,
\* items top to bottom.
DeclaredItems(menus) == Flatten([m \in 1 .. Len(menus) |-> menus[m].items])

\* The native items of a menu bar in the same order.
NativeItems(menu_bar) == Flatten([m \in 1 .. Len(menu_bar) |-> menu_bar[m].items])

\* The number of action items among the first k declared items.
ActionsAmong(items, k) == Cardinality({j \in 1 .. k : items[j].kind = "action"})

\* The state before the last operation.
Pre == Unwrap(last.pre)

\* C6 Menu tag density: after every set_menus call that returns, first or
\* repeated, on a tree with N action items, menu_actions has exactly N
\* entries, the action items carry the tags 0..N-1 in declaration order,
\* entry i of menu_actions is the (command, argument) of the item tagged i,
\* and separators receive no tag and add no entry.
C6_TagDensity ==
    (last.op = "set_menus" /\ last.outcome = "returned") =>
        LET items == DeclaredItems(last.menus)
            native == NativeItems(Unwrap(main_menu))
            N == ActionsAmong(items, Len(items))
        IN  /\ Len(state.menu_actions) = N
            /\ Len(Unwrap(main_menu)) = Len(last.menus)
            /\ \A m \in 1 .. Len(last.menus) :
                   Len(Unwrap(main_menu)[m].items) = Len(last.menus[m].items)
            /\ \A k \in 1 .. Len(items) :
                   IF items[k].kind = "action"
                   THEN /\ native[k].set_tag
                        /\ native[k].tag = ActionsAmong(items, k) - 1
                        /\ state.menu_actions[native[k].tag + 1]
                              = [action |-> items[k].action, arg |-> items[k].arg]
                   ELSE /\ ~native[k].set_tag
                        /\ native[k].selector = ""
            /\ {native[k].tag : k \in {j \in 1 .. Len(items) : items[j].kind = "action"}}
                   = 0 .. N - 1

\* C6 happens: a repeated set_menus built two menus with separators and
\* three action items over an earlier table.
C6_Witness ==
    /\ last.op = "set_menus"
    /\ last.outcome = "returned"
    /\ last.pre_built
    /\ Len(last.menus) = 2
    /\ Len(state.menu_actions) = 3
    /\ \E k \in 1 .. Len(DeclaredItems(last.menus)) :
          DeclaredItems(last.menus)[k].kind = "separator"

\* A menu item was activated with a handler installed.
MenuActivated == last.op = "handle_menu_item" /\ IsSome(Pre.menu_command)

\* The tag of the activated item indexes the table.
TagInRange == last.tag >= 0 /\ last.tag < Len(Pre.menu_actions)

\* C7 In-range menu activation: with a menu_command handler installed and
\* a tag i with 0 <= i < len(menu_actions), the handler is invoked exactly
\* once with the command name and the argument at index i, and the table
\* is unchanged by the activation.
C7_InRangeActivation ==
    (MenuActivated /\ TagInRange) =>
        /\ last.calls = << Invocation(Unwrap(Pre.menu_command),
                                      Pre.menu_actions[last.tag + 1].action,
                                      Pre.menu_actions[last.tag + 1].arg) >>
        /\ state.menu_actions = Pre.menu_actions

\* C7 happens: the item tagged 1 or more, whose entry has an argument, was
\* activated and the handler returned.
C7_Witness ==
    /\ MenuActivated
    /\ TagInRange
    /\ last.tag >= 1
    /\ IsSome(Pre.menu_actions[last.tag + 1].arg)
    /\ last.outcome = "returned"

\* C8 Stale tag safety: activating an item whose tag is negative or >= N,
\* the length of menu_actions, invokes no command, raises no error, and
\* leaves the menu_command handler and menu_actions unchanged.
C8_StaleTag ==
    (last.op = "handle_menu_item" /\ ~TagInRange) =>
        /\ last.calls = <<>>
        /\ last.outcome = "returned"
        /\ alive
        /\ state = Pre

\* C8 happens: with a handler installed and a table of one entry or more,
\* an item with a tag beyond the table was activated.
C8_Witness ==
    /\ MenuActivated
    /\ Len(Pre.menu_actions) >= 1
    /\ last.tag >= Len(Pre.menu_actions)

\* The menu_command handler invoked by the last activation installs a
\* handler with on_menu_command.
ReentrantInstall ==
    /\ last.op = "handle_menu_item"
    /\ last.calls # <<>>
    /\ HandlerBody(last.calls[1].handler).op = "on_menu_command"

\* C10 Reentrant install of menu_command: when the handler invoked by a
\* menu activation calls on_menu_command with H2, the invocation completes
\* normally and H2 is the installed handler afterwards.
C10_ReentrantInstall ==
    ReentrantInstall =>
        /\ last.outcome = "returned"
        /\ state.menu_command = Some(HandlerBody(last.calls[1].handler).handler)

\* ------------------------------------------------------------------------
\* Claims about the lifecycle notifications
\* ------------------------------------------------------------------------

\* C9 One-shot guarantee: the finish-launching handler passed to run is
\* invoked at most once; its slot is emptied before it is invoked and stays
\* empty; no later finish-launching, become-active or resign-active
\* notification invokes it.
C9_OneShot ==
    /\ fl_count <= 1
    /\ fl_count = 1 => state.finish_launching = None
    /\ (last.op = "did_finish_launching" /\ last.calls # <<>>) =>
           /\ last.calls = <<Invocation(Unwrap(Pre.finish_launching), "", None)>>
           /\ Unwrap(last.during).finish_launching = None
    /\ last.op \in {"did_become_active", "did_resign_active"} =>
           \A c \in 1 .. Len(last.calls) : last.calls[c].handler \notin FinishHandlers

\* C9 happens: the handler has fired and a later finish-launching
\* notification invoked nothing.
C9_Witness ==
    /\ fl_count = 1
    /\ last.op = "did_finish_launching"
    /\ last.calls = <<>>
    /\ alive

\* ------------------------------------------------------------------------
\* Claims about the handler slots
\* ------------------------------------------------------------------------

\* The install operations and the slot each one writes.
InstallOps ==
    {"on_become_active", "on_resign_active", "on_event", "on_open_files", "on_menu_command"}

SlotOf(op) ==
    CASE op = "on_become_active" -> "become_active"
      [] op = "on_resign_active" -> "resign_active"
      [] op = "on_event" -> "event"
      [] op = "on_open_files" -> "open_files"
      [] op = "on_menu_command" -> "menu_command"

\* The dispatch entry points of the persistent slots and the slot each one
\* invokes.
DispatchOps ==
    {"did_become_active", "did_resign_active", "send_event", "open_files", "handle_menu_item"}

DispatchSlot(op) ==
    CASE op = "did_become_active" -> "become_active"
      [] op = "did_resign_active" -> "resign_active"
      [] op = "send_event" -> "event"
      [] op = "open_files" -> "open_files"
      [] op = "handle_menu_item" -> "menu_command"

PersistentSlots == {"become_active", "resign_active", "event", "open_files", "menu_command"}

\* The handler invoked by the last dispatch installs a handler.
ReentrantMutation ==
    /\ last.op \in DispatchOps \cup {"did_finish_launching"}
    /\ last.calls # <<>>
    /\ HandlerBody(last.calls[1].handler).op \in InstallOps

\* C11 Re-entrant mutation is safe in every slot: when a handler invoked by
\* a dispatch entry point installs a handler into the same or another slot,
\* the dispatch returns (no borrow-conflict panic) and the installed
\* handler is the one in that slot afterwards.
C11_ReentrantMutation ==
    ReentrantMutation =>
        LET call == HandlerBody(last.calls[1].handler)
        IN  /\ last.outcome = "returned"
            /\ state[SlotOf(call.op)] = Some(call.handler)

\* C13 Generic event interception: for a send_event that returns, the
\* native default handling is skipped if and only if the event translates,
\* an event handler is installed and it returns consumed; otherwise the
\* event goes to the default handling exactly once; the handler is invoked
\* exactly when the event translates and a handler is installed, with the
\* translated event.
C13_EventInterception ==
    (last.op = "send_event" /\ last.outcome = "returned") =>
        LET event == from_native(last.arg)
            invoked == IsSome(event) /\ IsSome(Pre.event)
            consumed == invoked /\ HandlerReturns(Unwrap(Pre.event))
        IN  /\ last.fallthrough = (IF consumed THEN 0 ELSE 1)
            /\ last.calls = IF invoked
                            THEN <<Invocation(Unwrap(Pre.event), Unwrap(event), None)>>
                            ELSE <<>>

\* C13 happens: a translated event was consumed by the installed handler,
\* and the default handling was skipped.
C13_Witness ==
    /\ last.op = "send_event"
    /\ last.outcome = "returned"
    /\ last.calls # <<>>
    /\ last.fallthrough = 0

\* C15 Single-slot install: the slots are empty before the first install;
\* each install puts the given handler into its own slot, invokes nothing
\* and leaves the other slots and menu_actions as they were; a dispatch
\* invokes only the handler that its slot holds at that time, so a replaced
\* handler is not invoked again.
C15_SingleSlotInstall ==
    /\ \A slot \in PersistentSlots : DefaultState[slot] = None
    /\ last.op = "did_finish_launching" =>
           \A slot \in PersistentSlots : state[slot] = None
    /\ last.op \in InstallOps =>
           /\ state = [Pre EXCEPT ![SlotOf(last.op)] = Some(last.arg)]
           /\ last.calls = <<>>
           /\ last.outcome = "returned"
    /\ last.op \in DispatchOps =>
           \A c \in 1 .. Len(last.calls) :
               Some(last.calls[c].handler) = Pre[DispatchSlot(last.op)]

\* C15 happens: on_event replaced an installed event handler by another
\* one, with other slots filled and a menu table built.
C15_Witness ==
    /\ last.op = "on_event"
    /\ IsSome(Pre.event)
    /\ Pre.event # state.event
    /\ IsSome(Pre.open_files)
    /\ IsSome(Pre.become_active)
    /\ Pre.menu_actions # <<>>

\* A become-active, resign-active, open-files or menu-activation
\* notification.
PersistentDispatch ==
    last.op \in {"did_become_active", "did_resign_active", "open_files", "handle_menu_item"}

\* The handler the last notification invoked returned without calling the
\* platform.
PlainHandlerReturned ==
    /\ last.calls # <<>>
    /\ HandlerBody(last.calls[1].handler).op = "none"
    /\ last.outcome = "returned"

\* C20 as stated: every become-active, resign-active, open-files and
\* menu-activation notification invokes the handler installed in its slot
\* exactly once, not at all if the slot is empty, and a handler that does
\* not reinstall is still installed when it has returned.
C20_Original ==
    PersistentDispatch =>
        LET slot == DispatchSlot(last.op)
        IN  /\ IsSome(Pre[slot]) =>
                   /\ Len(last.calls) = 1
                   /\ last.calls[1].handler = Unwrap(Pre[slot])
            /\ Pre[slot] = None => last.calls = <<>>
            /\ PlainHandlerReturned => state[slot] = Pre[slot]

\* C20 Persistent handlers are not consumed by dispatch: every
\* become-active, resign-active and open-files notification, and every
\* menu activation whose tag indexes menu_actions, invokes the handler
\* installed in its slot exactly once; a menu activation with a tag out of
\* range, or a notification whose slot is empty, invokes nothing; and a
\* handler that does not reinstall is still installed when it has returned.
C20_PersistentHandlers ==
    PersistentDispatch =>
        LET slot == DispatchSlot(last.op)
            due == IsSome(Pre[slot]) /\ (last.op = "handle_menu_item" => TagInRange)
        IN  /\ due =>
                   /\ Len(last.calls) = 1
                   /\ last.calls[1].handler = Unwrap(Pre[slot])
            /\ ~due => (last.calls = <<>> /\ state = Pre)
            /\ PlainHandlerReturned => state = Pre

\* C20 happens: an open-files notification invoked the installed handler,
\* which returned and is still installed.
C20_Witness ==
    /\ last.op = "open_files"
    /\ PlainHandlerReturned
    /\ state.open_files = Some(last.calls[1].handler)

\* ------------------------------------------------------------------------
\* Claims about the file dialogs
\* ------------------------------------------------------------------------

\* C12 Dialog completion is delivered exactly once: for both kinds of
\* panel, done_fn has not been called while the completion block has not
\* run; once the block has run, on dismissal, done_fn has been called
\* exactly once, however often the block ran, and with no result if the
\* response of the dismissal was not Ok.
C12_DialogCompletion ==
    \A i \in 1 .. Len(panels) :
        LET panel == panels[i]
        IN  /\ panel.runs = 0 => (panel.done = <<>> /\ IsSome(panel.done_fn))
            /\ panel.runs >= 1 =>
                   /\ Len(panel.done) = 1
                   /\ panel.done[1].handler \in DoneHandlers
                   /\ panel.done_fn = None
                   /\ Unwrap(panel.first) # "NSModalResponseOk" =>
                          panel.done[1].result = None

\* C12 happens: a panel was cancelled and its completion block ran a
\* second time.
C12_Witness ==
    \E i \in 1 .. Len(panels) :
        /\ panels[i].runs >= 2
        /\ panels[i].first = Some("NSModalResponseCancel")
        /\ Len(panels[i].done) = 1

\* C16 prompt_for_paths always asks the chooser to resolve aliases, for
\* every combination of the directories, files and multiple options.
C16_ResolvesAliases ==
    \A i \in 1 .. Len(panels) :
        panels[i].kind = "open" => panels[i].resolves_aliases

\* ------------------------------------------------------------------------
\* Claims about quitting
\* ------------------------------------------------------------------------

\* The handler invoked by the last dispatch called MacPlatform::quit.
QuitInHandler ==
    /\ last.op \in DispatchOps
    /\ last.calls # <<>>
    /\ HandlerBody(last.calls[1].handler).op = "quit"

\* C14 Deferred termination: quit never sends terminate: before it
\* returns; when the callback that called quit has returned, or quit was
\* called outside any callback, the application is still running and the
\* termination waits on the main queue; the application terminates only in
\* a later step of the event loop that takes it from the queue.
C14_DeferredTermination ==
    /\ termination # "inline"
    /\ termination = "from_queue" => (last.op = "quit_task" /\ ~alive)
    /\ (QuitInHandler \/ last.op = "quit") =>
           /\ last.outcome = "returned"
           /\ alive
           /\ termination = "none"
           /\ main_queue # <<>>
           /\ main_queue[Len(main_queue)] = "terminate"
           /\ state = Pre

\* C14 happens: an event handler called quit and send_event returned with
\* the termination on the main queue.
C14_Witness ==
    /\ QuitInHandler
    /\ last.op = "send_event"
    /\ last.outcome = "returned"
    /\ main_queue # <<>>
    /\ alive

\* ------------------------------------------------------------------------
\* Claims about rebuilding the menus
\* ------------------------------------------------------------------------

\* The handler invoked by the last menu activation calls set_menus.
RebuildInHandler ==
    /\ last.op = "handle_menu_item"
    /\ last.calls # <<>>
    /\ HandlerBody(last.calls[1].handler).op = "set_menus"

\* C17 A menu_command handler may rebuild the menus from inside its own
\* invocation: the activation returns, menu_actions is the table of the
\* new menu tree and the handler is still installed.
C17_RebuildInHandler ==
    RebuildInHandler =>
        LET handler == last.calls[1].handler
            menus == HandlerBody(handler).menus
            items == DeclaredItems(menus)
        IN  /\ last.outcome = "returned"
            /\ Len(state.menu_actions) = ActionsAmong(items, Len(items))
            /\ main_menu = Some(create_menu_bar(DefaultState, menus).menu_bar)
            /\ state.menu_command = Some(handler)

\* The action items the UI runtime declares, by title.
DeclaredActionItems == {ItNew, ItSave, ItZoom, ItBad}

ActionOfTitle(title) == (CHOOSE it \in DeclaredActionItems : it.name = title).action

\* The native items of the installed menu bar.
InstalledItems == IF IsSome(main_menu) THEN NativeItems(Unwrap(main_menu)) ELSE <<>>

\* C18 Atomic table rebuild: whenever an item of the installed menu bar is
\* activated, menu_actions is the complete table of that menu bar: one
\* entry per tagged item, the entry at an item's tag being that item's
\* command.
C18_AtomicRebuild ==
    LET native == InstalledItems
        tagged == {k \in 1 .. Len(native) : native[k].set_tag}
    IN  (last.op = "handle_menu_item" /\ \E k \in tagged : native[k].tag = last.tag) =>
            /\ Len(Pre.menu_actions) = Cardinality(tagged)
            /\ \A k \in tagged :
                   Pre.menu_actions[native[k].tag + 1].action = ActionOfTitle(native[k].title)

\* An action item whose keystroke does not parse.
BadItem(it) ==
    /\ it.kind = "action"
    /\ IsSome(it.keystroke)
    /\ ~Keystroke_parse(Unwrap(it.keystroke)).ok

\* The positions <<menu, item>> of the bad items of a menu tree.
BadPositions(menus) ==
    UNION { { <<m, k>> : k \in {j \in 1 .. Len(menus[m].items) : BadItem(menus[m].items[j])} }
            : m \in 1 .. Len(menus) }

\* The first of them in declaration order.
FirstBad(menus) ==
    LET bad == BadPositions(menus)
    IN  CHOOSE p \in bad : \A q \in bad : p[1] < q[1] \/ (p[1] = q[1] /\ p[2] <= q[2])

\* The table entries of the action items declared before position p.
EntriesBefore(menus, p) ==
    LET IsAction(it) == it.kind = "action"
        before == Flatten([m \in 1 .. p[1] - 1 |-> menus[m].items])
                      \o SubSeq(menus[p[1]].items, 1, p[2] - 1)
        actions == SelectSeq(before, IsAction)
    IN  [j \in 1 .. Len(actions) |-> [action |-> actions[j].action, arg |-> actions[j].arg]]

\* The titles of the menus of a menu bar, and the names of a menu tree.
BarTitles(menu_bar) == [m \in 1 .. Len(menu_bar) |-> menu_bar[m].title]

TreeNames(menus) == [m \in 1 .. Len(menus) |-> menus[m].name]

\* C19 Malformed accelerator is fatal: a set_menus on a menu tree that has
\* an action item whose keystroke does not parse does not return; it
\* panics at the first such item in declaration order with a message
\* naming its menu and the item, having processed only the items before
\* it, and the installed menu bar, if there is one, is not a menu bar of
\* that tree.
C19_MalformedAccelerator ==
    (last.op = "set_menus" /\ BadPositions(last.menus) # {}) =>
        LET menus == last.menus
            p == FirstBad(menus)
        IN  /\ last.outcome # "returned"
            /\ last.message = Some(Message("Invalid keystroke for menu item",
                                           menus[p[1]].name,
                                           menus[p[1]].items[p[2]].name))
            /\ state.menu_actions = EntriesBefore(menus, p)
            /\ IsSome(main_menu) => BarTitles(Unwrap(main_menu)) # TreeNames(menus)

\* C19 happens: with a menu bar installed, set_menus on a tree of two menus
\* panicked at a malformed accelerator in the second one, and the process
\* goes on.
C19_Witness ==
    /\ last.op = "set_menus"
    /\ last.outcome = "unwound"
    /\ BadPositions(last.menus) # {}
    /\ FirstBad(last.menus)[1] = 2
    /\ IsSome(main_menu)

\* ------------------------------------------------------------------------
\* Claims about the back-reference
\* ------------------------------------------------------------------------

\* Every dispatch entry point.
EntryPoints == DispatchOps \cup {"did_finish_launching"}

AssertionFailed == Some(Message("assertion failed", "", ""))

\* The last operation was an entry point delivered while the ivar of its
\* receiver was null (no entry point changes the ivars).
DeliveredOnNull ==
    /\ last.op \in EntryPoints
    /\ platform_ivar[ReceiverOf(last.op)] = "null"

\* The last operation was a sendEvent: for a native event that does not
\* translate.
UntranslatedEvent == last.op = "send_event" /\ from_native(last.arg) = None

\* The last operation invoked no handler and left the registry as it found it.
RegistryUntouched == last.calls = <<>> /\ state = Unwrap(last.pre)

\* The stores and the clears of run, and the entry points delivered while
\* app.run() is in progress.
BackReferenceStored ==
    /\ event_loop = "running" => \A o \in Objects : platform_ivar[o] = "platform"
    /\ last.op = "run_exit" => \A o \in Objects : platform_ivar[o] = "null"
    /\ (last.op \in EntryPoints /\ event_loop = "running") => last.message # AssertionFailed

\* C21 as stated: every entry point delivered on a null back-reference
\* fails its assertion.
C21_Original ==
    /\ BackReferenceStored
    /\ DeliveredOnNull =>
           last.outcome # "returned" /\ last.message = AssertionFailed /\ RegistryUntouched

\* C21 Back-reference lifecycle: while app.run() is in progress the ivars
\* of the application object and of its delegate hold the platform, and
\* right after run has cleared them both are null; no entry point delivered
\* while the loop runs fails the non-null assertion; an entry point
\* delivered on a null back-reference fails the assertion with no handler
\* invoked and the registry untouched, except sendEvent: for a native
\* event that does not translate, which looks up no back-reference and
\* returns after passing the event to the default handling once.
C21_BackReferenceLifecycle ==
    /\ BackReferenceStored
    /\ (DeliveredOnNull /\ ~UntranslatedEvent) =>
           last.outcome # "returned" /\ last.message = AssertionFailed /\ RegistryUntouched
    /\ (DeliveredOnNull /\ UntranslatedEvent) =>
           last.outcome = "returned" /\ last.fallthrough = 1 /\ RegistryUntouched

\* C21 happens: after a run has ended, a become-active notification
\* reaches the delegate while a become_active handler is installed, and
\* fails the assertion.
C21_Witness ==
    /\ last.op = "did_become_active"
    /\ DeliveredOnNull
    /\ IsSome(state.become_active)
    /\ last.message = AssertionFailed

\* ------------------------------------------------------------------------
\* Claims about malformed private slots
\* ------------------------------------------------------------------------

\* The hash slot is present and exactly eight bytes wide.
WellFormedHash == IsSome(pasteboard.hash) /\ Len(Unwrap(pasteboard.hash)) = 8

\* The metadata slot is present and holds UTF-8.
WellFormedMeta == IsSome(pasteboard.meta) /\ ValidFrom(Unwrap(pasteboard.meta), 1)

\* A read is the last operation and it found a plain-text slot (a read
\* leaves the pasteboard as it found it).
ReadWithText == ReadDone /\ IsSome(pasteboard.text)

\* C22 Malformed private slots degrade to no metadata: a read that finds a
\* plain-text slot returns an item with the slot's text; when the hash slot
\* is missing or not eight bytes wide, or the metadata slot is missing or
\* not UTF-8, the item has no metadata; the item has metadata only when
\* both private slots are present and well-formed and the big-endian
\* number in the hash slot is the hash of the text just read, and then it
\* is the metadata slot's string.
C22_MalformedPrivateSlots ==
    ReadWithText =>
        LET text == from_utf8_lossy(Unwrap(pasteboard.text))
        IN  /\ cb_last = "read"
            /\ IsSome(ReadResult)
            /\ Unwrap(ReadResult).text = text
            /\ (~WellFormedHash \/ ~WellFormedMeta) => Unwrap(ReadResult).metadata = None
            /\ IsSome(Unwrap(ReadResult).metadata) =>
                   /\ WellFormedHash
                   /\ WellFormedMeta
                   /\ BeValue(Unwrap(pasteboard.hash), 8) = text_hash(text)
                   /\ Unwrap(ReadResult).metadata = pasteboard.meta

====
